---- MODULE Spec2Model ----
(***************************************************************************)
(* Model of the MCP bridge of the edge-docker service:                     *)
(*   service/utils/container.js  checkContainer, ensureContainer           *)
(*   service/utils/mcp.js        callEdgeTts                               *)
(* One call of callEdgeTts is followed from the container check to the     *)
(* settlement of the promise it returns and the end of the docker exec     *)
(* process it spawned.  The events of the session (stdout data, stderr     *)
(* data, the deadline timer, close, error, the delayed kill) are the       *)
(* actions; each action is the whole callback.                             *)
(***************************************************************************)
EXTENDS Integers, Sequences, FiniteSets, TLC

(***************************************************************************)
(* Bounds of the model.                                                    *)
(***************************************************************************)
\* calls of ensureContainer one caller makes
MaxCalls == 2
\* units of output the channel process writes to stdout in one session
MaxOut == 3
\* units of output delivered by one 'data' event
MaxChunk == 2
\* characters of stderr delivered by one stderr 'data' event
StderrChunk == 300
\* characters of stderr the channel process writes in one session
MaxStderr == 600

(***************************************************************************)
(* Program constants.                                                      *)
(***************************************************************************)
\* stderr.substring(0, 500)
StderrExcerpt == 500

(***************************************************************************)
(* The wire: stdout is a text; the model cuts it into units.  A unit is a  *)
(* newline, a piece of text that is no JSON, a whole response message, or  *)
(* one of the two halves of the tool response {"id":2,"result":{...}}.     *)
(***************************************************************************)
NL == "\n"

\* the values a field of a response takes: absent (undefined), a falsy
\* JSON value (null, 0, "", false), or an object
Absent == "absent"
Falsy == "falsy"
InitResult == "initResult"
ToolResult == "toolResult"
ErrBadVoice == "errBadVoice"
ErrNoMessage == "errNoMessage"

\* the response messages the worker may write, by the unit that carries them
Messages ==
  [ m1r  |-> [id |-> 1, error |-> Absent,       result |-> InitResult],
    m1e  |-> [id |-> 1, error |-> ErrBadVoice,  result |-> Absent],
    m2r  |-> [id |-> 2, error |-> Absent,       result |-> ToolResult],
    m2e  |-> [id |-> 2, error |-> ErrBadVoice,  result |-> Absent],
    m2e0 |-> [id |-> 2, error |-> ErrNoMessage, result |-> Absent],
    m2f  |-> [id |-> 2, error |-> Absent,       result |-> Falsy],
    m2n  |-> [id |-> 2, error |-> Falsy,        result |-> Absent] ]

MessageUnits == DOMAIN Messages

\* the two halves of the text of m2r, and a text that is no JSON
HalfA == "m2r_a"
HalfB == "m2r_b"
Garbage == "x"

Units == MessageUnits \cup {NL, HalfA, HalfB, Garbage}

\* the fragments one 'data' event may carry
Chunks == UNION { [1..n -> Units] : n \in 1..MaxChunk }

\* JS truthiness of a field value
Truthy(v) == v \notin {Absent, Falsy}

\* error.message of an error object ("" when it has none)
MessageOf(e) == IF e = ErrBadVoice THEN "bad voice" ELSE ""

\* response.error.message || JSON.stringify(response.error)
ErrorText(e) == IF MessageOf(e) # "" THEN MessageOf(e) ELSE "{\"code\":-1}"

\* stdout.split('\n'): the segments between the newlines, the last one
\* (terminated or not) included
RECURSIVE Split(_)
Split(s) ==
  IF \A i \in 1..Len(s) : s[i] # NL
  THEN << s >>
  ELSE LET k == CHOOSE i \in 1..Len(s) : s[i] = NL /\ \A j \in 1..(i-1) : s[j] # NL
       IN  << SubSeq(s, 1, k-1) >> \o Split(SubSeq(s, k+1, Len(s)))

\* JSON.parse(line): the message when the line is the complete text of one,
\* a failure (the exception the catch swallows) otherwise
ParseFailure == [ok |-> FALSE, id |-> 0, error |-> Absent, result |-> Absent]
Parsed(m) == [ok |-> TRUE, id |-> m.id, error |-> m.error, result |-> m.result]
JSONparse(line) ==
  IF Len(line) = 1 /\ line[1] \in MessageUnits THEN Parsed(Messages[line[1]])
  ELSE IF line = << HalfA, HalfB >> THEN Parsed(Messages["m2r"])
  ELSE ParseFailure

VARIABLES
  pc,          \* where callEdgeTts is: "check", "starting", "creating", "settle", "session", "thrown"
  container,   \* the worker container: "absent", "stopped", "running"
  proc,        \* the docker exec process: "none", "spawnfail", "failed", "running", "dying", "closed"
  stdin,       \* ids of the requests written to the process's stdin
  stdout,      \* let stdout: the units received so far
  stderr,      \* let stderr: the number of characters captured so far
  exitCode,    \* the code the 'close' event carried ("none" before it)
  resolved,    \* let resolved
  timer,       \* const timeout: "none", "armed", "cleared", "fired"
  pendingKill, \* setTimeout(() => dockerProcess.kill(), 100) callbacks not yet run
  kills,       \* calls of dockerProcess.kill()
  settleCalls, \* calls of resolve or reject (and the throw before the promise)
  outcome,     \* what the caller of callEdgeTts got
  \* concurrent callers of ensureContainer (container.js), by caller
  lpc,         \* where the caller is: "idle", "query", "decide", "starting", "creating", "settle"
  status,      \* const status = await checkContainer(containerName)
  issued,      \* the docker start / docker run commands the caller has issued
  lresult,     \* what its last call returned: "none", "true", "false"
  calls,       \* the calls it has completed
  \* concurrent calls of callEdgeTts (mcp.js), by caller
  ipc,         \* where the call is: "idle", "ensure", "session", "thrown"
  chan,        \* const dockerProcess of the call: the process it spawned (0: none)
  ibuf,        \* let stdout of the call
  isess,       \* resolved, timeout and the settlement of the call
  procs,       \* the docker exec processes spawned so far, in order of spawning
  \* concurrent calls of executeScripts (script-executor.js), by caller
  xpc,         \* where the call is: "idle", "running", "returned"
  scripts,     \* the scripts argument of the call
  started,     \* how many of them executeScript has been called for
  results,     \* const results of the call
  totalExecuted, \* stats.totalExecuted
  errors,      \* stats.errors
  lastExecuted, \* stats.lastExecuted, by the number of times it was set
  \* concurrent POST /speak requests (routes.js, methods.js), by caller
  spc,         \* where the request is: "idle", "invoke", "copy", "play", "answered"
  sops,        \* what speak has called so far: "invoke", "copy", "play"
  tts,         \* how its callEdgeTts settled: "none", "pending", "success", "failure"
  written,     \* whether the worker has written the audio of the request
  wfile,       \* whose audio /tmp/output.mp3 in the worker holds ("none": no file)
  copied,      \* whose audio docker cp put into the host file of the request
  response,    \* the HTTP status sent: 0 (none yet), 200, 400, 500
  totalRequests, \* stats.totalRequests of the speech service
  totalSpoken, \* stats.totalSpoken
  speakErrors  \* stats.errors of the speech service

\* the variables of the one call of callEdgeTts
svars == << pc, proc, stdin, stdout, stderr, exitCode, resolved, timer,
            pendingKill, kills, settleCalls, outcome >>

\* the variables of the callers of ensureContainer
lvars == << lpc, status, issued, lresult, calls >>

\* the variables of the concurrent calls of callEdgeTts
ivars == << ipc, chan, ibuf, isess, procs >>

\* the variables of the calls of executeScripts and of the statistics
xvars == << xpc, scripts, started, results, totalExecuted, errors, lastExecuted >>

\* the variables of the POST /speak requests and of the service statistics
pvars == << spc, sops, tts, written, wfile, copied, response,
            totalRequests, totalSpoken, speakErrors >>

vars == << svars, container, lvars, ivars, xvars, pvars >>

Pending == [kind |-> "pending"]
Success(v) == [kind |-> "success", value |-> v]
WorkerUnavailable == [kind |-> "WorkerUnavailable"]
SpawnFailure == [kind |-> "SpawnFailure"]
ProtocolTimeout == [kind |-> "ProtocolTimeout"]
RemoteToolError(msg) == [kind |-> "RemoteToolError", message |-> msg]
PrematureExit(code, n) == [kind |-> "PrematureExit", code |-> code, excerpt |-> n]

\* a promise keeps its first settlement; later resolve/reject calls are no-ops
Settle(cur, o) == IF cur = Pending THEN o ELSE cur

\* dockerProcess.kill(): SIGTERM to a live process, nothing otherwise
Killed(p) == IF p = "running" THEN "dying" ELSE p

\* clearTimeout(timeout): a timer that has run or was cleared stays as it is
Cleared(t) == IF t = "armed" THEN "cleared" ELSE t


(***************************************************************************)
(* The callbacks of one session, as functions of the session's variables.  *)
(***************************************************************************)
Session == [ proc |-> proc, resolved |-> resolved, timer |-> timer,
             pendingKill |-> pendingKill, kills |-> kills,
             settleCalls |-> settleCalls, outcome |-> outcome ]

\* mcp.js 29: the guard of the deadline callback
TimeoutGuard(res) == ~res

\* the deadline callback without dockerProcess.kill()
TimeoutCallbackNoKill(st) ==
  IF TimeoutGuard(st.resolved)
  THEN [st EXCEPT !.resolved = TRUE,
                  !.settleCalls = @ + 1,
                  !.outcome = Settle(@, ProtocolTimeout)]
  ELSE st

\* mcp.js 28-34: the callback of setTimeout(..., 10000)
TimeoutCallback(st) ==
  IF TimeoutGuard(st.resolved)
  THEN [st EXCEPT !.resolved = TRUE,
                  !.kills = @ + 1,
                  !.proc = Killed(@),
                  !.settleCalls = @ + 1,
                  !.outcome = Settle(@, ProtocolTimeout)]
  ELSE st

\* the guard without response.id === 2
ResponseGuardAnyId(r, res) == ~res

\* the guard without && !resolved
ResponseGuardNoFlag(r, res) == r.id = 2

\* mcp.js 48: response.id === 2 && !resolved
ResponseGuard(r, res) == r.id = 2 /\ ~res

\* mcp.js 52-54: the response carries a (truthy) error
RejectRemote(st, r) ==
  [st EXCEPT !.kills = @ + 1,
             !.proc = Killed(@),
             !.settleCalls = @ + 1,
             !.outcome = Settle(@, RemoteToolError(ErrorText(r.error)))]

\* the success path with dockerProcess.kill() called at once, before resolve
ResolveResultKillsAtOnce(st, r) ==
  [st EXCEPT !.kills = @ + 1,
             !.proc = Killed(@),
             !.settleCalls = @ + 1,
             !.outcome = Settle(@, Success(r.result))]

\* mcp.js 55-58: the response carries a (truthy) result
ResolveResult(st, r) ==
  [st EXCEPT !.pendingKill = @ + 1,
             !.settleCalls = @ + 1,
             !.outcome = Settle(@, Success(r.result))]

\* a catch that rejects the call with the parse error
CatchRejects(st) ==
  [st EXCEPT !.resolved = TRUE,
             !.timer = Cleared(@),
             !.settleCalls = @ + 1,
             !.outcome = Settle(@, RemoteToolError("parse error"))]

\* mcp.js 61-63: catch (e) { /* Ignore parse errors for partial lines */ }
CatchParse(st) == st

\* mcp.js 41-64: the loop over the lines of the accumulated stdout
RECURSIVE ScanLines(_, _, _)
ScanLines(lines, i, st) ==
  IF i > Len(lines) THEN st
  ELSE IF lines[i] = << >> THEN ScanLines(lines, i + 1, st)
  ELSE LET r == JSONparse(lines[i]) IN
       IF ~r.ok THEN ScanLines(lines, i + 1, CatchParse(st))
       ELSE IF ResponseGuard(r, st.resolved)
       THEN LET st1 == [st EXCEPT !.resolved = TRUE, !.timer = Cleared(@)] IN
            IF Truthy(r.error) THEN RejectRemote(st1, r)
            ELSE IF Truthy(r.result) THEN ResolveResult(st1, r)
            ELSE ScanLines(lines, i + 1, st1)
       ELSE ScanLines(lines, i + 1, st)

\* mcp.js 36-65: dockerProcess.stdout.on('data'), after stdout += data
DataCallback(st, out) == ScanLines(Split(out), 1, st)

\* mcp.js 79: code !== 0 && !resolved
CloseGuard(code, res) == code # "0" /\ ~res

\* mcp.js 81: stderr.substring(0, 500), by its length
Excerpt(n) == IF n > StderrExcerpt THEN StderrExcerpt ELSE n

\* mcp.js 71-83: dockerProcess.on('close')
CloseCallback(st, code, err) ==
  LET st1 == [st EXCEPT !.timer = Cleared(@), !.proc = "closed"] IN
  IF st1.resolved THEN st1
  ELSE IF CloseGuard(code, st1.resolved)
  THEN [st1 EXCEPT !.resolved = TRUE,
                   !.settleCalls = @ + 1,
                   !.outcome = Settle(@, PrematureExit(code, Excerpt(err)))]
  ELSE st1

\* the 'error' callback without clearTimeout(timeout)
ErrorClearsNothing(t) == t

\* mcp.js 86: clearTimeout(timeout) of the 'error' callback
ErrorClears(t) == Cleared(t)

\* mcp.js 85-91: dockerProcess.on('error')
ErrorCallback(st) ==
  LET st1 == [st EXCEPT !.timer = ErrorClears(@), !.proc = "failed"] IN
  IF ~st1.resolved
  THEN [st1 EXCEPT !.resolved = TRUE,
                   !.settleCalls = @ + 1,
                   !.outcome = Settle(@, SpawnFailure)]
  ELSE st1

\* the variables of the session take the values of st
Becomes(st) ==
  /\ proc' = st.proc
  /\ resolved' = st.resolved
  /\ timer' = st.timer
  /\ pendingKill' = st.pendingKill
  /\ kills' = st.kills
  /\ settleCalls' = st.settleCalls
  /\ outcome' = st.outcome

(***************************************************************************)
(* Init: callEdgeTts has been called and awaits checkContainer.            *)
(***************************************************************************)
ContainerStates == {"absent", "stopped", "running"}
ExitCodes == {"0", "1", "null"}
SpawnErrorCode == "-2"

\* the callers of ensureContainer that run concurrently
Callers == {"A", "B"}

\* container.js 37: no caller has called ensureContainer yet
LifecycleInit ==
  /\ lpc = [c \in Callers |-> "idle"]
  /\ status = [c \in Callers |-> [exists |-> FALSE, running |-> FALSE]]
  /\ issued = [c \in Callers |-> << >>]
  /\ lresult = [c \in Callers |-> "none"]
  /\ calls = [c \in Callers |-> 0]

\* mcp.js 13: no caller has called callEdgeTts yet
InvokeInit ==
  /\ ipc = [i \in Callers |-> "idle"]
  /\ chan = [i \in Callers |-> 0]
  /\ ibuf = [i \in Callers |-> << >>]
  /\ isess = [i \in Callers |->
               [ resolved |-> FALSE, timer |-> "none", pendingKill |-> 0,
                 kills |-> 0, settleCalls |-> 0, outcome |-> Pending ]]
  /\ procs = << >>

\* docker-stats.js 8-14: the statistics as createDockerStats makes them, and
\* no call of executeScripts yet
ScriptsInit ==
  /\ xpc = [c \in Callers |-> "idle"]
  /\ scripts = [c \in Callers |-> << >>]
  /\ started = [c \in Callers |-> 0]
  /\ results = [c \in Callers |-> << >>]
  /\ totalExecuted = 0
  /\ errors = 0
  /\ lastExecuted = 0

\* stats.js 7-15: the statistics as createStats makes them; no request yet
SpeakInit ==
  /\ spc = [r \in Callers |-> "idle"]
  /\ sops = [r \in Callers |-> << >>]
  /\ tts = [r \in Callers |-> "none"]
  /\ written = [r \in Callers |-> FALSE]
  /\ wfile = "none"
  /\ copied = [r \in Callers |-> "none"]
  /\ response = [r \in Callers |-> 0]
  /\ totalRequests = 0
  /\ totalSpoken = 0
  /\ speakErrors = 0

Init ==
  /\ LifecycleInit
  /\ InvokeInit
  /\ ScriptsInit
  /\ SpeakInit
  /\ pc = "check"
  /\ container \in ContainerStates
  /\ proc = "none"
  /\ stdin = << >>
  /\ stdout = << >>
  /\ stderr = 0
  /\ exitCode = "none"
  /\ resolved = FALSE
  /\ timer = "none"
  /\ pendingKill = 0
  /\ kills = 0
  /\ settleCalls = 0
  /\ outcome = Pending

\* a checkContainer whose catch reports a stopped container
checkContainerFailStopped(queryOk) ==
  IF queryOk
  THEN [exists |-> container # "absent", running |-> container = "running"]
  ELSE [exists |-> TRUE, running |-> FALSE]

\* container.js 13-29: checkContainer; the query itself may fail
checkContainer(queryOk) ==
  IF queryOk
  THEN [exists |-> container # "absent", running |-> container = "running"]
  ELSE [exists |-> FALSE, running |-> FALSE]

\* mcp.js 94-103: initMessage, and 105-110: toolMessage
initMessage == [id |-> 1, method |-> "initialize"]
toolMessage == [id |-> 2, method |-> "tools/call"]

\* the two writes in the other order
WritesSwapped == << toolMessage, initMessage >>

\* mcp.js 113-114: the two dockerProcess.stdin.write calls, in their order
Writes == << initMessage, toolMessage >>

\* mcp.js 20-34, 93-114: the promise executor: spawn, the session's
\* variables, the deadline timer, the two writes
StartSession(spawnOk) ==
  /\ pc' = "session"
  /\ proc' = IF spawnOk THEN "running" ELSE "spawnfail"
  /\ stdout' = << >>
  /\ stderr' = 0
  /\ resolved' = FALSE
  /\ timer' = "armed"
  /\ stdin' = Writes
  /\ UNCHANGED << exitCode, pendingKill, kills, settleCalls, outcome >>

\* the check of ready placed after the spawn, the timer and the writes
ThrowAfterSpawn ==
  /\ pc' = "thrown"
  /\ settleCalls' = settleCalls + 1
  /\ outcome' = Settle(outcome, WorkerUnavailable)
  /\ proc' = "running"
  /\ timer' = "armed"
  /\ stdin' = Writes
  /\ UNCHANGED << stdout, stderr, exitCode, resolved, pendingKill, kills >>

\* mcp.js 16-18: throw new Error('Container not available')
ThrowNotAvailable ==
  /\ pc' = "thrown"
  /\ settleCalls' = settleCalls + 1
  /\ outcome' = Settle(outcome, WorkerUnavailable)
  /\ UNCHANGED << proc, stdin, stdout, stderr, exitCode, resolved, timer, pendingKill, kills >>

\* the decision with the stopped container sent to docker run
EnsureDecisionCreates(st) ==
  IF st.exists /\ st.running THEN "ready" ELSE "creating"

\* the decision without the early return on a running container
EnsureDecisionNoReturn(st) ==
  IF st.exists THEN "starting" ELSE "creating"

\* container.js 40, 44, 56: what ensureContainer does on the queried status
EnsureDecision(st) ==
  IF st.exists /\ st.running THEN "ready"
  ELSE IF st.exists /\ ~st.running THEN "starting"
  ELSE "creating"

\* container.js 37-44, 56-57: the status query returns and ensureContainer
\* decides; on a running container callEdgeTts goes on to the session
CheckContainer ==
  /\ pc = "check"
  /\ \E queryOk \in BOOLEAN :
       LET st == checkContainer(queryOk) IN
       IF EnsureDecision(st) = "ready"
       THEN \E spawnOk \in BOOLEAN : StartSession(spawnOk)
       ELSE /\ pc' = EnsureDecision(st)
            /\ UNCHANGED << proc, stdin, stdout, stderr, exitCode, resolved, timer,
                            pendingKill, kills, settleCalls, outcome >>
  /\ UNCHANGED container
  /\ UNCHANGED lvars
  /\ UNCHANGED ivars
  /\ UNCHANGED xvars
  /\ UNCHANGED pvars

\* container.js 44-54: docker start returns
DockerStart ==
  /\ pc = "starting"
  /\ \E ok \in BOOLEAN :
       IF ok
       THEN /\ container' = "running"
            /\ pc' = "settle"
            /\ UNCHANGED << proc, stdin, stdout, stderr, exitCode, resolved, timer,
                            pendingKill, kills, settleCalls, outcome >>
       ELSE /\ ThrowNotAvailable
            /\ UNCHANGED container
  /\ UNCHANGED lvars
  /\ UNCHANGED ivars
  /\ UNCHANGED xvars
  /\ UNCHANGED pvars

\* container.js 56-65: docker run -d --name returns; it cannot succeed when
\* a container of that name exists
DockerRun ==
  /\ pc = "creating"
  /\ \E ok \in (IF container = "absent" THEN BOOLEAN ELSE {FALSE}) :
       IF ok
       THEN /\ container' = "running"
            /\ pc' = "settle"
            /\ UNCHANGED << proc, stdin, stdout, stderr, exitCode, resolved, timer,
                            pendingKill, kills, settleCalls, outcome >>
       ELSE /\ ThrowNotAvailable
            /\ UNCHANGED container
  /\ UNCHANGED lvars
  /\ UNCHANGED ivars
  /\ UNCHANGED xvars
  /\ UNCHANGED pvars

\* container.js 48-49, 60-61: the settle delay ends, ensureContainer returns
\* true and callEdgeTts goes on to the session
SettleDelay ==
  /\ pc = "settle"
  /\ \E spawnOk \in BOOLEAN : StartSession(spawnOk)
  /\ UNCHANGED container
  /\ UNCHANGED lvars
  /\ UNCHANGED ivars
  /\ UNCHANGED xvars
  /\ UNCHANGED pvars

\* mcp.js 36-65: a 'data' event of stdout
StdoutData ==
  /\ pc = "session"
  /\ proc \in {"running", "dying"}
  /\ \E chunk \in Chunks :
       /\ Len(stdout) + Len(chunk) <= MaxOut
       /\ stdout' = stdout \o chunk
       /\ Becomes(DataCallback(Session, stdout \o chunk))
  /\ UNCHANGED << pc, container, stdin, stderr, exitCode >>
  /\ UNCHANGED lvars
  /\ UNCHANGED ivars
  /\ UNCHANGED xvars
  /\ UNCHANGED pvars

\* mcp.js 67-69: a 'data' event of stderr
StderrData ==
  /\ pc = "session"
  /\ proc \in {"running", "dying"}
  /\ stderr + StderrChunk <= MaxStderr
  /\ stderr' = stderr + StderrChunk
  /\ UNCHANGED << pc, container, proc, stdin, stdout, exitCode, resolved, timer,
                  pendingKill, kills, settleCalls, outcome >>
  /\ UNCHANGED lvars
  /\ UNCHANGED ivars
  /\ UNCHANGED xvars
  /\ UNCHANGED pvars

\* mcp.js 28-34: the deadline timer fires
TimeoutFires ==
  /\ pc = "session"
  /\ timer = "armed"
  /\ Becomes(TimeoutCallback([Session EXCEPT !.timer = "fired"]))
  /\ UNCHANGED << pc, container, stdin, stdout, stderr, exitCode >>
  /\ UNCHANGED lvars
  /\ UNCHANGED ivars
  /\ UNCHANGED xvars
  /\ UNCHANGED pvars

\* mcp.js 71-83: the 'close' event of a process that ran
Close ==
  /\ pc = "session"
  /\ proc \in {"running", "dying"}
  /\ \E code \in ExitCodes :
       /\ exitCode' = code
       /\ Becomes(CloseCallback(Session, code, stderr))
  /\ UNCHANGED << pc, container, stdin, stdout, stderr >>
  /\ UNCHANGED lvars
  /\ UNCHANGED ivars
  /\ UNCHANGED xvars
  /\ UNCHANGED pvars

\* mcp.js 71-83: the 'close' event that follows the 'error' of a failed spawn
CloseFailed ==
  /\ pc = "session"
  /\ proc = "failed"
  /\ exitCode' = SpawnErrorCode
  /\ Becomes(CloseCallback(Session, SpawnErrorCode, stderr))
  /\ UNCHANGED << pc, container, stdin, stdout, stderr >>
  /\ UNCHANGED lvars
  /\ UNCHANGED ivars
  /\ UNCHANGED xvars
  /\ UNCHANGED pvars

\* mcp.js 85-91: the 'error' event of a process that could not be spawned
ProcError ==
  /\ pc = "session"
  /\ proc = "spawnfail"
  /\ Becomes(ErrorCallback(Session))
  /\ UNCHANGED << pc, container, stdin, stdout, stderr, exitCode >>
  /\ UNCHANGED lvars
  /\ UNCHANGED ivars
  /\ UNCHANGED xvars
  /\ UNCHANGED pvars

\* mcp.js 57: the callback of setTimeout(() => dockerProcess.kill(), 100)
DelayedKill ==
  /\ pc = "session"
  /\ pendingKill > 0
  /\ pendingKill' = pendingKill - 1
  /\ kills' = kills + 1
  /\ proc' = Killed(proc)
  /\ UNCHANGED << pc, container, stdin, stdout, stderr, exitCode, resolved, timer,
                  settleCalls, outcome >>
  /\ UNCHANGED lvars
  /\ UNCHANGED ivars
  /\ UNCHANGED xvars
  /\ UNCHANGED pvars

Next ==
  \/ CheckContainer
  \/ DockerStart
  \/ DockerRun
  \/ SettleDelay
  \/ StdoutData
  \/ StderrData
  \/ TimeoutFires
  \/ Close
  \/ CloseFailed
  \/ ProcError
  \/ DelayedKill

Spec == Init /\ [][Next]_vars

\* What the scheduling guarantees: a command that was issued returns, a timer
\* that is armed fires, the error of a failed spawn is emitted, and a process
\* that was sent SIGTERM closes.  Nothing makes the worker write or exit.
CloseKilled == proc = "dying" /\ Close

Fairness ==
  /\ WF_vars(CheckContainer)
  /\ WF_vars(DockerStart)
  /\ WF_vars(DockerRun)
  /\ WF_vars(SettleDelay)
  /\ WF_vars(TimeoutFires)
  /\ WF_vars(ProcError)
  /\ WF_vars(DelayedKill)
  /\ WF_vars(CloseKilled)

FairSpec == Init /\ [][Next]_vars /\ Fairness

(***************************************************************************)
(* Concurrent callers of ensureContainer.  A docker command is issued when *)
(* the await before it returns and takes effect when it returns; between   *)
(* the two the other callers run.                                          *)
(***************************************************************************)
\* the command a caller issues, with the state of the container at that
\* moment and the number of the call that issues it
Command(c, op) == [op |-> op, seen |-> container, call |-> calls[c] + 1]

\* container.js 41, 49, 52, 61, 64: ensureContainer returns val
Returns(c, val) ==
  /\ lpc' = [lpc EXCEPT ![c] = "idle"]
  /\ lresult' = [lresult EXCEPT ![c] = val]
  /\ calls' = [calls EXCEPT ![c] = @ + 1]

\* a catch that issues the command again
CatchRetries(op) == "retry"

\* container.js 50-53, 62-65: catch (err) { console.error(...); return false; }
CatchReturns(op) == "false"

\* container.js 46-53, 58-65: the command of the caller failed
CommandFailed(c, op) ==
  IF CatchReturns(op) = "false"
  THEN Returns(c, "false")
  ELSE /\ lpc' = [lpc EXCEPT ![c] = "decide"]
       /\ UNCHANGED << lresult, calls >>

\* container.js 37: ensureContainer is called
EnsureCall(c) ==
  /\ lpc[c] = "idle"
  /\ calls[c] < MaxCalls
  /\ lpc' = [lpc EXCEPT ![c] = "query"]
  /\ UNCHANGED << container, status, issued, lresult, calls >>
  /\ UNCHANGED svars
  /\ UNCHANGED ivars
  /\ UNCHANGED xvars
  /\ UNCHANGED pvars

\* a status the caller remembers from a call that returned true
StatusRemembered(c, queryOk) ==
  IF lresult[c] = "true"
  THEN [exists |-> TRUE, running |-> TRUE]
  ELSE checkContainer(queryOk)

\* container.js 38: const status = await checkContainer(containerName),
\* a local of the call
StatusQueried(c, queryOk) == checkContainer(queryOk)

\* container.js 13-29: docker ps runs and checkContainer has its answer
QueryStatus(c) ==
  /\ lpc[c] = "query"
  /\ \E queryOk \in BOOLEAN :
       status' = [status EXCEPT ![c] = StatusQueried(c, queryOk)]
  /\ lpc' = [lpc EXCEPT ![c] = "decide"]
  /\ UNCHANGED << container, issued, lresult, calls >>
  /\ UNCHANGED svars
  /\ UNCHANGED ivars
  /\ UNCHANGED xvars
  /\ UNCHANGED pvars

\* container.js 38-47, 56-59: the await of checkContainer returns;
\* ensureContainer returns true or issues docker start or docker run
EnsureDecide(c) ==
  /\ lpc[c] = "decide"
  /\ LET d == EnsureDecision(status[c]) IN
     IF d = "ready"
     THEN Returns(c, "true") /\ UNCHANGED issued
     ELSE /\ lpc' = [lpc EXCEPT ![c] = d]
          /\ issued' = [issued EXCEPT ![c] =
                          Append(@, Command(c, IF d = "starting" THEN "start" ELSE "run"))]
          /\ UNCHANGED << lresult, calls >>
  /\ UNCHANGED << container, status >>
  /\ UNCHANGED svars
  /\ UNCHANGED ivars
  /\ UNCHANGED xvars
  /\ UNCHANGED pvars

\* container.js 47, 50-53: docker start returns; it cannot succeed when
\* there is no container of that name
StartReturns(c) ==
  /\ lpc[c] = "starting"
  /\ \E ok \in (IF container = "absent" THEN {FALSE} ELSE BOOLEAN) :
       IF ok
       THEN /\ container' = "running"
            /\ lpc' = [lpc EXCEPT ![c] = "settle"]
            /\ UNCHANGED << lresult, calls >>
       ELSE /\ CommandFailed(c, "start")
            /\ UNCHANGED container
  /\ UNCHANGED << status, issued >>
  /\ UNCHANGED svars
  /\ UNCHANGED ivars
  /\ UNCHANGED xvars
  /\ UNCHANGED pvars

\* container.js 59, 62-65: docker run -d --name returns; it cannot succeed
\* when a container of that name exists
RunReturns(c) ==
  /\ lpc[c] = "creating"
  /\ \E ok \in (IF container = "absent" THEN BOOLEAN ELSE {FALSE}) :
       IF ok
       THEN /\ container' = "running"
            /\ lpc' = [lpc EXCEPT ![c] = "settle"]
            /\ UNCHANGED << lresult, calls >>
       ELSE /\ CommandFailed(c, "run")
            /\ UNCHANGED container
  /\ UNCHANGED << status, issued >>
  /\ UNCHANGED svars
  /\ UNCHANGED ivars
  /\ UNCHANGED xvars
  /\ UNCHANGED pvars

\* container.js 48-49, 60-61: the settle delay ends, return true
DelayReturns(c) ==
  /\ lpc[c] = "settle"
  /\ Returns(c, "true")
  /\ UNCHANGED << container, status, issued >>
  /\ UNCHANGED svars
  /\ UNCHANGED ivars
  /\ UNCHANGED xvars
  /\ UNCHANGED pvars

\* container.js 15: the container whose status docker ps reports is not
\* under the service's control; it may stop or be removed at any time
WorkerGoesDown ==
  /\ container = "running"
  /\ container' \in {"stopped", "absent"}
  /\ UNCHANGED lvars
  /\ UNCHANGED svars
  /\ UNCHANGED ivars
  /\ UNCHANGED xvars
  /\ UNCHANGED pvars

LifecycleNext ==
  \/ WorkerGoesDown
  \/ \E c \in Callers :
       \/ EnsureCall(c)
       \/ QueryStatus(c)
       \/ EnsureDecide(c)
       \/ StartReturns(c)
       \/ RunReturns(c)
       \/ DelayReturns(c)

LifecycleSpec == Init /\ [][LifecycleNext]_vars

TypeOK ==
  /\ pc \in {"check", "starting", "creating", "settle", "session", "thrown"}
  /\ container \in ContainerStates
  /\ proc \in {"none", "spawnfail", "failed", "running", "dying", "closed"}
  /\ resolved \in BOOLEAN
  /\ timer \in {"none", "armed", "cleared", "fired"}
  /\ Len(stdout) <= MaxOut
  /\ stderr <= MaxStderr

(***************************************************************************)
(* What the properties speak of.                                           *)
(***************************************************************************)
OutcomeKinds == {"success", "WorkerUnavailable", "SpawnFailure",
                 "ProtocolTimeout", "RemoteToolError", "PrematureExit"}

\* the parsed id=2 messages of an output, in stream order
Id2Lines(out) ==
  LET lines == Split(out) IN
  { i \in 1..Len(lines) : JSONparse(lines[i]).ok /\ JSONparse(lines[i]).id = 2 }

HasId2(out) == Id2Lines(out) # {}

FirstId2(out) ==
  LET lines == Split(out)
      k == CHOOSE i \in Id2Lines(out) : \A j \in Id2Lines(out) : i <= j
  IN  JSONparse(lines[k])

\* a 'data' event in which the id=2 branch of the callback was taken
HandlesId2 == stdout' # stdout /\ ~resolved /\ resolved'

\* the id=2 branch was taken at some 'data' event: resolved is set, and not
\* by the timer, the close or the error callback
HandledId2 ==
  resolved /\ outcome.kind \in {"pending", "success", "RemoteToolError"}

\* a 'close' event of the process
Closes == proc # "closed" /\ proc' = "closed"

\* the process has exited, never ran, or was sent a kill by the session
Terminated == proc \in {"failed", "closed", "dying"} \/ kills > 0

(***************************************************************************)
(* C1. Every call of callEdgeTts eventually settles, with exactly one of   *)
(* success, WorkerUnavailable, SpawnFailure, ProtocolTimeout,              *)
(* RemoteToolError, PrematureExit, whatever the channel's events are.      *)
(***************************************************************************)
C1_EveryCallSettles ==
  /\ [](settleCalls <= 1)
  /\ <>(outcome.kind \in OutcomeKinds)

(***************************************************************************)
(* C2. In one session resolved goes from false to true at most once and    *)
(* resolve/reject is called at most once, under every interleaving of      *)
(* data, timer, close and error; a later event does not change the         *)
(* outcome already delivered.                                              *)
(***************************************************************************)
C2_SettlesOnce ==
  [][ /\ resolved => resolved'
      /\ settleCalls' <= 1
      /\ outcome # Pending => outcome' = outcome ]_vars

\* a valid id=2 response arrived after the timeout had settled the call
C2_LateResponseAfterTimeout ==
  /\ outcome = ProtocolTimeout
  /\ HasId2(stdout)
  /\ FirstId2(stdout).result = ToolResult

(***************************************************************************)
(* C3. No session leaks its channel process: once a session has been       *)
(* spawned its process eventually is terminated (it has exited, or the     *)
(* session has issued a kill for it).                                      *)
(***************************************************************************)
C3_ProcessTerminated == (pc = "session") ~> Terminated

(***************************************************************************)
(* C4. The session issues kill on its channel process at most once: the    *)
(* timeout kill, the kill on a remote error and the delayed kill on        *)
(* success exclude each other.                                             *)
(***************************************************************************)
C4_KillAtMostOnce == kills + pendingKill <= 1

\* the delayed kill of a success has run
C4_DelayedKillRan == outcome.kind = "success" /\ kills = 1 /\ pendingKill = 0

(***************************************************************************)
(* C5. When the deadline timer fires on an unsettled call the session      *)
(* kills the channel process and settles with the timeout error; and when  *)
(* the worker never answers id=2 and the process never exits, that is the  *)
(* outcome eventually delivered.                                           *)
(***************************************************************************)
C5_TimeoutKillsAndSettles ==
  /\ [][ (timer = "armed" /\ timer' = "fired" /\ outcome = Pending)
         => /\ kills' = kills + 1
            /\ proc' # "running"
            /\ outcome' = ProtocolTimeout ]_vars
  /\ (pc = "session")
       ~> (\/ outcome = ProtocolTimeout
           \/ HandledId2
           \/ proc \in {"failed", "closed"})

\* the timer fired on a silent worker and the process was sent the kill
C5_TimedOut ==
  /\ outcome = ProtocolTimeout
  /\ timer = "fired"
  /\ kills = 1
  /\ proc = "dying"
  /\ ~HasId2(stdout)

(***************************************************************************)
(* C6. A parsed id=2 message that carries a result field (and no error     *)
(* field) settles an unsettled session with success, and the value the     *)
(* caller gets is that result field, whatever its value.                   *)
(***************************************************************************)
C6_ResultSettlesSuccess ==
  [][ (HandlesId2 /\ FirstId2(stdout').error = Absent
                  /\ FirstId2(stdout').result # Absent)
      => outcome' = Success(FirstId2(stdout').result) ]_vars

(***************************************************************************)
(* C7. A parsed id=2 message that carries an error field settles an        *)
(* unsettled session with RemoteToolError, with the error's message when   *)
(* it has one, and never with success.                                     *)
(***************************************************************************)
C7_ErrorSettlesRemoteToolError ==
  [][ (HandlesId2 /\ FirstId2(stdout').error # Absent)
      => /\ outcome'.kind = "RemoteToolError"
         /\ MessageOf(FirstId2(stdout').error) # ""
              => outcome'.message = MessageOf(FirstId2(stdout').error) ]_vars

(***************************************************************************)
(* C8. When the channel process exits with a non-zero or null code while   *)
(* the call is unsettled, the session settles with PrematureExit carrying  *)
(* that code and at most 500 characters of the captured stderr.            *)
(***************************************************************************)
C8_AbnormalExitSettles ==
  [][ (Closes /\ exitCode' # "0" /\ outcome = Pending)
      => /\ outcome'.kind = "PrematureExit"
         /\ outcome'.code = exitCode'
         /\ outcome'.excerpt <= StderrExcerpt
         /\ outcome'.excerpt <= stderr ]_vars

(***************************************************************************)
(* C9. When the channel process exits, with any code, before an id=2       *)
(* response was handled, the call settles with PrematureExit and does not  *)
(* stay pending.                                                           *)
(***************************************************************************)
C9_CloseWithoutResponseSettles ==
  [][ (Closes /\ ~resolved) => outcome'.kind = "PrematureExit" ]_vars

(***************************************************************************)
(* C10. When the process cannot be spawned (its 'error' event fires on an  *)
(* unsettled call) the session settles at once with SpawnFailure, and the  *)
(* deadline timer is disarmed: after it the timer is never armed, never    *)
(* fires, and no kill and no timeout outcome follows.                      *)
(***************************************************************************)
C10_SpawnFailureSettlesAndDisarms ==
  [][ /\ (proc = "spawnfail" /\ proc' = "failed" /\ outcome = Pending)
           => outcome' = SpawnFailure
      /\ outcome' = SpawnFailure
           => timer' = "cleared" /\ kills' = 0 /\ pendingKill' = 0 ]_vars

\* the spawn failed, the call got SpawnFailure, the 'close' event followed
C10_SpawnFailed ==
  /\ outcome = SpawnFailure
  /\ proc = "closed"
  /\ exitCode = SpawnErrorCode
  /\ timer = "cleared"

(***************************************************************************)
(* C11. When ensureContainer returns false, callEdgeTts fails at once with *)
(* WorkerUnavailable and attempts no session: no process is spawned, no    *)
(* deadline timer is armed, nothing is written to a channel.               *)
(***************************************************************************)
C11_NotReadyNoSession ==
  /\ pc = "thrown" <=> outcome = WorkerUnavailable
  /\ pc = "thrown" =>
       /\ proc = "none"
       /\ timer = "none"
       /\ stdin = << >>
       /\ stdout = << >>
       /\ kills = 0 /\ pendingKill = 0
       /\ settleCalls = 1

\* docker start of a stopped container failed and the call was refused
C11_StartFailed == outcome = WorkerUnavailable /\ container = "stopped"

C13_OtherIdsDiscarded ==
  [][ (stdout' # stdout /\ ~HasId2(stdout'))
      => UNCHANGED << resolved, timer, outcome, settleCalls, kills,
                      pendingKill, proc >> ]_vars

\* both handshake responses were parsed and the call still awaits id=2
C13_HandshakeSeen ==
  /\ stdout = << "m1r", NL, "m1e" >>
  /\ ~resolved
  /\ timer = "armed"
  /\ outcome = Pending

(***************************************************************************)
(* C14. The outcome does not depend on the order of the responses: moving  *)
(* a line that is no id=2 message (the id=1 response) before or after its  *)
(* neighbour, or leaving it out, gives the same outcome.                   *)
(***************************************************************************)
\* the session right after the promise executor
FreshSession == [ proc |-> "running", resolved |-> FALSE, timer |-> "armed",
                  pendingKill |-> 0, kills |-> 0, settleCalls |-> 0,
                  outcome |-> Pending ]

\* what a session that receives out in one fragment delivers
HandlerOutcome(out) == DataCallback(FreshSession, out).outcome

RECURSIVE Join(_)
Join(lines) ==
  IF Len(lines) = 1 THEN lines[1]
  ELSE lines[1] \o << NL >> \o Join(Tail(lines))

SwapLines(lines, i) ==
  [ k \in 1..Len(lines) |->
      IF k = i THEN lines[i + 1] ELSE IF k = i + 1 THEN lines[i] ELSE lines[k] ]

DropLine(lines, i) == SubSeq(lines, 1, i - 1) \o SubSeq(lines, i + 1, Len(lines))

IsId2Line(line) == JSONparse(line).ok /\ JSONparse(line).id = 2

C14_OrderIndependent ==
  LET lines == Split(stdout) IN
  /\ \A i \in 1..(Len(lines) - 1) :
       ~(IsId2Line(lines[i]) /\ IsId2Line(lines[i + 1]))
         => HandlerOutcome(Join(SwapLines(lines, i))) = HandlerOutcome(stdout)
  /\ \A i \in 1..Len(lines) :
       (Len(lines) > 1 /\ ~IsId2Line(lines[i]))
         => HandlerOutcome(Join(DropLine(lines, i))) = HandlerOutcome(stdout)

\* the tool response came before the handshake response
C14_ToolResponseFirst ==
  /\ stdout = << "m2r", NL, "m1r" >>
  /\ outcome = Success(ToolResult)

(***************************************************************************)
(* C15. Chunking independence: however the output was cut into fragments,  *)
(* a session settled by its output alone has the outcome of the session    *)
(* that receives the same output in one fragment.                          *)
(***************************************************************************)
C15_ChunkingIndependent ==
  (pc = "session" /\ timer # "fired" /\ proc \in {"running", "dying"})
    => outcome = HandlerOutcome(stdout)

(***************************************************************************)
(* What the properties of ensureContainer speak of.                        *)
(***************************************************************************)
\* the number of the call a caller is in, or of its last call when idle
CallOf(c) == IF lpc[c] = "idle" THEN calls[c] ELSE calls[c] + 1

\* the commands a caller issued in its call n, in order
OpsOfCall(c, n) ==
  LET mine == SelectSeq(issued[c], LAMBDA e : e.call = n)
  IN  [ i \in 1..Len(mine) |-> mine[i].op ]

\* status[c] is the answer of the call the caller is in (or of its last call)
StatusKnown(c) == CallOf(c) > 0 /\ lpc[c] # "query"

\* ensureContainer returns in this step
ReturnsNow(c) == calls'[c] = calls[c] + 1

(***************************************************************************)
(* C16. ensureContainer is idempotent on a running worker: a call whose    *)
(* status query reports the worker existing and running returns true and   *)
(* issues no docker start and no docker run, however often it is called.   *)
(***************************************************************************)
C16_RunningIsNoOp ==
  \A c \in Callers :
    (StatusKnown(c) /\ status[c].exists /\ status[c].running)
      => /\ OpsOfCall(c, CallOf(c)) = << >>
         /\ lpc[c] \in {"decide", "idle"}
         /\ lpc[c] = "idle" => lresult[c] = "true"

\* a caller called twice on a running worker and nobody issued a command
C16_TwiceOnRunning ==
  /\ calls["A"] = 2
  /\ lresult["A"] = "true"
  /\ status["A"].exists /\ status["A"].running
  /\ \A c \in Callers : issued[c] = << >>

(***************************************************************************)
(* C17. ensureContainer chooses its command from the queried status only:  *)
(* reported stopped, exactly one docker start and no docker run; reported  *)
(* absent, exactly one docker run and no docker start; and it returns true *)
(* only after the command succeeded and the settle delay ended.            *)
(***************************************************************************)
C17_CommandByStatus ==
  [][ \A c \in Callers :
        /\ (StatusKnown(c) /\ status[c].exists /\ ~status[c].running)'
             => /\ lpc'[c] \in {"decide", "starting", "settle", "idle"}
                /\ OpsOfCall(c, CallOf(c))' =
                     IF lpc'[c] = "decide" THEN << >> ELSE << "start" >>
        /\ (StatusKnown(c) /\ ~status[c].exists)'
             => /\ lpc'[c] \in {"decide", "creating", "settle", "idle"}
                /\ OpsOfCall(c, CallOf(c))' =
                     IF lpc'[c] = "decide" THEN << >> ELSE << "run" >>
        /\ (lpc[c] # "settle" /\ lpc'[c] = "settle")
             => lpc[c] \in {"starting", "creating"} /\ container' = "running"
        /\ (ReturnsNow(c) /\ lresult'[c] = "true")
             => \/ lpc[c] = "settle"
                \/ lpc[c] = "decide" /\ status[c].exists /\ status[c].running
    ]_vars

\* a stopped worker was started by one docker start and the call returned true
C17_StartedStopped ==
  /\ calls["A"] = 1
  /\ lpc["A"] = "idle"
  /\ lresult["A"] = "true"
  /\ issued["A"] = << [op |-> "start", seen |-> "stopped", call |-> 1] >>
  /\ container = "running"

(***************************************************************************)
(* C18. When docker start or docker run fails, ensureContainer returns     *)
(* false (it has no other way out: it never throws) and does not retry: a  *)
(* call issues at most one command.                                        *)
(***************************************************************************)
C18_FailureReturnsFalseNoRetry ==
  [][ \A c \in Callers :
        /\ \A n \in 1..MaxCalls : Len(OpsOfCall(c, n))' <= 1
        /\ lresult'[c] \in {"none", "true", "false"}
        /\ (lpc[c] \in {"starting", "creating"} /\ lpc'[c] \notin {lpc[c], "settle"})
             => ReturnsNow(c) /\ lresult'[c] = "false"
    ]_vars

\* docker run failed on an absent worker and the call returned false
C18_CreateFailed ==
  /\ calls["A"] = 1
  /\ lresult["A"] = "false"
  /\ issued["A"] = << [op |-> "run", seen |-> "absent", call |-> 1] >>
  /\ container = "absent"

(***************************************************************************)
(* C19. An existing worker is never created again: under every             *)
(* interleaving of concurrent ensureContainer calls no docker run is       *)
(* issued while the worker exists, and no call returns false because       *)
(* another call brought the worker up first.                               *)
(***************************************************************************)
C19_NoCreateOfExisting ==
  [][ \A c \in Callers :
        /\ (lpc[c] = "decide" /\ lpc'[c] = "creating") => container = "absent"
        /\ (lpc[c] = "creating" /\ ReturnsNow(c) /\ lresult'[c] = "false")
             => container = "absent"
    ]_vars

(***************************************************************************)
(* Concurrent calls of callEdgeTts.  Each call runs the callbacks of one   *)
(* session on the process it spawned; the calls share the container and    *)
(* the event loop, nothing else.  The workers write nothing on stderr      *)
(* here, and at most MaxInvokeOut units each on stdout.                    *)
(***************************************************************************)
MaxInvokeOut == 2

\* what a worker may write in answer to a call: a handshake response, a tool
\* result, a tool error
InvokeUnits == {"m1r", "m2r", "m2e"}

\* a dockerProcess variable shared by the calls: the last process spawned
SharedHandle(i) == Len(procs)

\* mcp.js 21: const dockerProcess, local to the call and captured by its
\* callbacks
ChannelOf(i) == chan[i]

\* the variables of the session of call i, with the state of its process
SessionOf(i) ==
  [ proc |-> procs[ChannelOf(i)].state,
    resolved |-> isess[i].resolved, timer |-> isess[i].timer,
    pendingKill |-> isess[i].pendingKill, kills |-> isess[i].kills,
    settleCalls |-> isess[i].settleCalls, outcome |-> isess[i].outcome ]

\* the variables of call i take the values of st; its process has written out
BecomesOf(i, st, out) ==
  /\ isess' = [isess EXCEPT ![i] =
                 [ resolved |-> st.resolved, timer |-> st.timer,
                   pendingKill |-> st.pendingKill, kills |-> st.kills,
                   settleCalls |-> st.settleCalls, outcome |-> st.outcome ]]
  /\ procs' = [procs EXCEPT ![ChannelOf(i)] =
                 [@ EXCEPT !.state = st.proc, !.written = out]]

\* mcp.js 13-15: callEdgeTts is called and awaits ensureContainer
InvokeCall(i) ==
  /\ ipc[i] = "idle"
  /\ ipc' = [ipc EXCEPT ![i] = "ensure"]
  /\ UNCHANGED << container, chan, ibuf, isess, procs >>
  /\ UNCHANGED << svars, lvars >>
  /\ UNCHANGED xvars
  /\ UNCHANGED pvars

\* mcp.js 15-18: ensureContainer returned false
InvokeThrows(i) ==
  /\ ipc[i] = "ensure"
  /\ ipc' = [ipc EXCEPT ![i] = "thrown"]
  /\ isess' = [isess EXCEPT ![i].settleCalls = @ + 1,
                            ![i].outcome = Settle(@, WorkerUnavailable)]
  /\ UNCHANGED << container, chan, ibuf, procs >>
  /\ UNCHANGED << svars, lvars >>
  /\ UNCHANGED xvars
  /\ UNCHANGED pvars

\* mcp.js 15, 20-34, 113-114: ensureContainer returned true (the container
\* runs); the call spawns its process, arms its timer, writes its requests
InvokeSpawns(i) ==
  /\ ipc[i] = "ensure"
  /\ container' = "running"
  /\ ipc' = [ipc EXCEPT ![i] = "session"]
  /\ \E spawnOk \in BOOLEAN :
       procs' = Append(procs, [ owner |-> i,
                                state |-> IF spawnOk THEN "running" ELSE "spawnfail",
                                stdin |-> Writes,
                                written |-> << >> ])
  /\ chan' = [chan EXCEPT ![i] = Len(procs) + 1]
  /\ isess' = [isess EXCEPT ![i].timer = "armed"]
  /\ UNCHANGED ibuf
  /\ UNCHANGED << svars, lvars >>
  /\ UNCHANGED xvars
  /\ UNCHANGED pvars

\* mcp.js 36-65: the process of the call writes u; a 'data' event of stdout
InvokeStdoutData(i) ==
  /\ ipc[i] = "session"
  /\ SessionOf(i).proc \in {"running", "dying"}
  /\ Len(ibuf[i]) < MaxInvokeOut
  /\ \E u \in InvokeUnits :
       /\ ibuf' = [ibuf EXCEPT ![i] = Append(@, u)]
       /\ BecomesOf(i, DataCallback(SessionOf(i), Append(ibuf[i], u)),
                    Append(procs[ChannelOf(i)].written, u))
  /\ UNCHANGED << container, ipc, chan >>
  /\ UNCHANGED << svars, lvars >>
  /\ UNCHANGED xvars
  /\ UNCHANGED pvars

\* mcp.js 28-34: the deadline timer of the call fires
InvokeTimeoutFires(i) ==
  /\ ipc[i] = "session"
  /\ isess[i].timer = "armed"
  /\ BecomesOf(i, TimeoutCallback([SessionOf(i) EXCEPT !.timer = "fired"]),
               procs[ChannelOf(i)].written)
  /\ UNCHANGED << container, ipc, chan, ibuf >>
  /\ UNCHANGED << svars, lvars >>
  /\ UNCHANGED xvars
  /\ UNCHANGED pvars

\* mcp.js 71-83: the 'close' event of the process of the call
InvokeClose(i) ==
  /\ ipc[i] = "session"
  /\ SessionOf(i).proc \in {"running", "dying", "failed"}
  /\ \E code \in (IF SessionOf(i).proc = "failed" THEN {SpawnErrorCode} ELSE ExitCodes) :
       BecomesOf(i, CloseCallback(SessionOf(i), code, 0), procs[ChannelOf(i)].written)
  /\ UNCHANGED << container, ipc, chan, ibuf >>
  /\ UNCHANGED << svars, lvars >>
  /\ UNCHANGED xvars
  /\ UNCHANGED pvars

\* mcp.js 85-91: the 'error' event of a process that could not be spawned
InvokeProcError(i) ==
  /\ ipc[i] = "session"
  /\ SessionOf(i).proc = "spawnfail"
  /\ BecomesOf(i, ErrorCallback(SessionOf(i)), procs[ChannelOf(i)].written)
  /\ UNCHANGED << container, ipc, chan, ibuf >>
  /\ UNCHANGED << svars, lvars >>
  /\ UNCHANGED xvars
  /\ UNCHANGED pvars

\* mcp.js 57: the callback of setTimeout(() => dockerProcess.kill(), 100)
InvokeDelayedKill(i) ==
  /\ ipc[i] = "session"
  /\ isess[i].pendingKill > 0
  /\ BecomesOf(i, [SessionOf(i) EXCEPT !.pendingKill = @ - 1,
                                       !.kills = @ + 1,
                                       !.proc = Killed(@)],
               procs[ChannelOf(i)].written)
  /\ UNCHANGED << container, ipc, chan, ibuf >>
  /\ UNCHANGED << svars, lvars >>
  /\ UNCHANGED xvars
  /\ UNCHANGED pvars

InvokeNext ==
  \E i \in Callers :
    \/ InvokeCall(i)
    \/ InvokeThrows(i)
    \/ InvokeSpawns(i)
    \/ InvokeStdoutData(i)
    \/ InvokeTimeoutFires(i)
    \/ InvokeClose(i)
    \/ InvokeProcError(i)
    \/ InvokeDelayedKill(i)

InvokeSpec == Init /\ [][InvokeNext]_vars

\* the processes spawned by call i
ProcessesOf(i) == { p \in 1..Len(procs) : procs[p].owner = i }

(***************************************************************************)
(* C20. Every call of callEdgeTts that passes ensureContainer spawns       *)
(* exactly one docker exec process of its own: concurrent calls have       *)
(* distinct processes, a call that passed ensureContainer can spawn        *)
(* whatever the other calls are doing, and a call accumulates exactly what *)
(* its own process wrote and signals only its own process.                 *)
(***************************************************************************)
C20_OwnChannelProcess ==
  \A i \in Callers :
    /\ Cardinality(ProcessesOf(i)) = IF ipc[i] = "session" THEN 1 ELSE 0
    /\ ipc[i] = "ensure" => ENABLED InvokeSpawns(i)
    /\ ipc[i] = "session" =>
         /\ ProcessesOf(i) = {chan[i]}
         /\ \A j \in Callers \ {i} : ipc[j] = "session" => chan[j] # chan[i]
         /\ procs[chan[i]].stdin = << initMessage, toolMessage >>
         /\ ibuf[i] = procs[chan[i]].written
         /\ procs[chan[i]].state = "dying" => isess[i].kills > 0

\* two calls are in session at once, each on its own live process, and
\* each has received what its own worker wrote, which differs
C20_TwoLiveSessions ==
  /\ \A i \in Callers : ipc[i] = "session" /\ procs[chan[i]].state = "running"
  /\ chan["A"] # chan["B"]
  /\ ibuf["A"] = << "m2r" >>
  /\ ibuf["B"] = << "m1r" >>

\* an event of the session of call i: one of its callbacks runs
EventOf(i) ==
  \/ InvokeStdoutData(i)
  \/ InvokeTimeoutFires(i)
  \/ InvokeClose(i)
  \/ InvokeProcError(i)
  \/ InvokeDelayedKill(i)

\* what call j holds: its position, its process and the state of it, its
\* stdout buffer, its resolved flag, its timer and its settlement
HeldBy(j) ==
  << ipc[j], chan[j], ibuf[j], isess[j],
     IF chan[j] \in 1..Len(procs) THEN procs[chan[j]] ELSE "none" >>

(***************************************************************************)
(* C21. Sessions are isolated: an event of one session (a 'data' event     *)
(* with an id=2 message, its deadline firing, its process closing or being *)
(* killed) leaves the resolved flag, settlement, stdout buffer, timer and  *)
(* process of every other concurrent call unchanged.                       *)
(***************************************************************************)
C21_EventsLeaveOthersAlone ==
  [][ \A i \in Callers :
        EventOf(i) => \A j \in Callers \ {i} : HeldBy(j)' = HeldBy(j)
    ]_vars

\* one call has timed out and killed its process while the other call is
\* still unresolved, with its timer armed and its process running
C21_OneTimedOutOtherPending ==
  /\ ipc["A"] = "session" /\ ipc["B"] = "session"
  /\ isess["A"].outcome = ProtocolTimeout
  /\ procs[chan["A"]].state = "dying"
  /\ ~isess["B"].resolved
  /\ isess["B"].timer = "armed"
  /\ procs[chan["B"]].state = "running"
  /\ ibuf["B"] = << "m1r" >>

(***************************************************************************)
(* What the 'data' callback hands to JSON.parse.                           *)
(***************************************************************************)
\* mcp.js 41-64: the lines one run of the loop passes to JSON.parse, in
\* order; a return out of the loop ends it
RECURSIVE LinesHanded(_, _, _)
LinesHanded(lines, i, res) ==
  IF i > Len(lines) THEN << >>
  ELSE IF lines[i] = << >> THEN LinesHanded(lines, i + 1, res)
  ELSE LET r == JSONparse(lines[i]) IN
       << lines[i] >> \o
       ( IF r.ok /\ ResponseGuard(r, res)
         THEN IF Truthy(r.error) \/ Truthy(r.result)
              THEN << >>
              ELSE LinesHanded(lines, i + 1, TRUE)
         ELSE LinesHanded(lines, i + 1, res) )

\* the newline-terminated lines of a stream, terminators stripped
CompleteLines(s) == SubSeq(Split(s), 1, Len(Split(s)) - 1)

\* the segment of a stream after its last newline
Unterminated(s) == Split(s)[Len(Split(s))]

\* the non-blank ones of the lines a fragment completed
NewlyCompleted(before, after) ==
  SelectSeq(SubSeq(CompleteLines(after), Len(CompleteLines(before)) + 1,
                   Len(CompleteLines(after))),
            LAMBDA l : l # << >>)

(***************************************************************************)
(* C22. The records handed to the parser are the newline-terminated lines  *)
(* of the stream received so far: a 'data' event hands to JSON.parse the   *)
(* lines its fragment completed, each once and in order, and never the     *)
(* segment that has not received its newline yet.                          *)
(***************************************************************************)
C22_CompleteLinesOnce ==
  [][ (stdout' # stdout /\ ~resolved) =>
        \E k \in 0..Len(NewlyCompleted(stdout, stdout')) :
          LinesHanded(Split(stdout'), 1, resolved) =
            SubSeq(NewlyCompleted(stdout, stdout'), 1, k)
    ]_vars

(***************************************************************************)
(* C23. After each fragment the accumulation buffer holds only the         *)
(* trailing unterminated segment: no complete line stays in it.            *)
(***************************************************************************)
C23_BufferHoldsOnlyTail ==
  pc = "session" => stdout = Unterminated(stdout)

\* lines that JSON.parse rejects: malformed text, half a message, a message
\* with text before or after it, two messages run together
BadLines ==
  { l \in [1..1 -> Units \ {NL}] \cup [1..2 -> {Garbage, HalfB, "m2r"}] :
      ~JSONparse(l).ok }

\* the id=2 messages that carry an error or a result
ValidId2 == { u \in MessageUnits :
                /\ Messages[u].id = 2
                /\ Truthy(Messages[u].error) \/ Truthy(Messages[u].result) }

(***************************************************************************)
(* C24. A line that JSON.parse rejects is skipped: it settles nothing,     *)
(* raises nothing and leaves the resolved flag and the timer as they are;  *)
(* and an id=2 line with an error or a result that comes after it, in the  *)
(* same fragment or a later one, settles the call as it would have alone.  *)
(***************************************************************************)
C24_BadLineSkipped ==
  pc = "session" =>
    LET sofar == IF stdout = << >> \/ stdout[Len(stdout)] = NL
                 THEN stdout ELSE stdout \o << NL >>
    IN
    \A l \in BadLines :
      /\ DataCallback(Session, sofar \o l \o << NL >>) = Session
      /\ DataCallback(Session, sofar \o l) = Session
      /\ ~resolved =>
           \A u \in ValidId2 :
             LET alone == DataCallback(Session, << u, NL >>)
                 same  == DataCallback(Session, sofar \o l \o << NL, u, NL >>)
                 later == DataCallback(DataCallback(Session, sofar \o l \o << NL >>),
                                       sofar \o l \o << NL, u, NL >>)
             IN  /\ alone.resolved /\ alone.outcome # Pending
                 /\ same = alone
                 /\ later = alone

\* a rejected line came first and the tool result after it settled the call
C24_SettledAfterBadLine ==
  /\ pc = "session"
  /\ stdout = << Garbage, NL, "m2r" >>
  /\ outcome = Success(ToolResult)
  /\ timer = "cleared"

(***************************************************************************)
(* C25. After a settlement by success, remote error or timeout the session *)
(* always calls kill on its process: at once on a remote error and on a    *)
(* timeout; on success only after the result was delivered and the grace   *)
(* delay ended, and then whatever has become of the process, an exit       *)
(* included.                                                               *)
(***************************************************************************)
C25_KillFollowsSettlement ==
  /\ [](outcome.kind \in {"RemoteToolError", "ProtocolTimeout"} => kills = 1)
  /\ [](outcome.kind = "success" => kills + pendingKill = 1)
  /\ [](pendingKill > 0 => outcome.kind = "success" /\ ENABLED DelayedKill)
  /\ [][ (kills' = kills + 1 /\ outcome'.kind = "success")
           => outcome.kind = "success" /\ pendingKill = 1 /\ pendingKill' = 0
       ]_vars
  /\ (outcome.kind = "success") ~> (kills = 1)

\* the process exited by itself with code 0 and the delayed kill was
\* still called
C25_KillAfterExit ==
  /\ outcome.kind = "success"
  /\ proc = "closed"
  /\ exitCode = "0"
  /\ kills = 1
  /\ pendingKill = 0

(***************************************************************************)
(* C26. The status of the worker is never cached: every call of            *)
(* ensureContainer starts with its own docker ps and decides on that       *)
(* answer, so a worker that stopped or was removed after one call is       *)
(* started or created by the next call, which does not return true from    *)
(* what an earlier call saw.                                               *)
(***************************************************************************)
C26_StatusQueriedEachCall ==
  [][ \A c \in Callers :
        /\ (lpc[c] = "idle" /\ lpc'[c] # "idle") => lpc'[c] = "query"
        /\ (lpc[c] = "query" /\ lpc'[c] # "query")
             => /\ lpc'[c] = "decide"
                /\ status'[c] \in {checkContainer(TRUE), checkContainer(FALSE)}
        /\ (lpc[c] = "decide" /\ lpc'[c] # "decide" /\ status[c] = checkContainer(TRUE))
             => CASE container = "running" -> ReturnsNow(c) /\ lresult'[c] = "true"
                  [] container = "stopped" -> lpc'[c] = "starting"
                  [] container = "absent"  -> lpc'[c] = "creating"
        /\ lpc[c] # "query" => status'[c] = status[c]
    ]_vars

\* a first call found the worker running and did nothing; the worker then
\* stopped, and the second call of the same caller issued docker start
C26_RestartedAfterStop ==
  /\ calls["A"] = 2
  /\ lresult["A"] = "true"
  /\ issued["A"] = << [op |-> "start", seen |-> "stopped", call |-> 2] >>
  /\ issued["B"] = << >>
  /\ calls["B"] = 0

(***************************************************************************)
(* executeScripts: concurrent calls, each over its own list of scripts,    *)
(* all on the one statistics object of the service.  The body of a call    *)
(* runs from one await of executeScript to the next without a break.       *)
(***************************************************************************)
MaxScripts == 2

ScriptNames == {"s1", "s2"}

\* the lists a caller may pass
ScriptLists == UNION { [1..n -> ScriptNames] : n \in 0..MaxScripts }

\* how executeScript settles: resolved with exit code 0, resolved with
\* another exit code, rejected
Settlements == {"exit0", "exit1", "threw"}

\* script-executor.js 129-130, 165-171: the entry pushed for a script
Entry(script, how) ==
  [ script |-> script, success |-> how = "exit0", error |-> how = "threw" ]

\* a counter rule that counts only scripts that exited with code 0
ResolvedWithSuccess(how) == how = "exit0"

\* script-executor.js 164-167: the try block ran to its end, executeScript
\* resolved
Resolved(how) == how # "threw"

\* a loop that gives up at the first script that threw
StopsAtError(how) == how # "threw"

\* script-executor.js 162-174: the catch block falls through to the next
\* iteration
Continues(how) == TRUE

\* docker-stats.js 41-43 and script-executor.js 177-178: updateLastExecuted
\* and return results
ReturnResults(c) ==
  /\ lastExecuted' = lastExecuted + 1
  /\ xpc' = [xpc EXCEPT ![c] = "returned"]

\* script-executor.js 159-164: executeScripts is called; with no script the
\* loop is skipped, otherwise executeScript is called for the first one
ExecCall(c) ==
  /\ xpc[c] = "idle"
  /\ \E list \in ScriptLists :
       /\ scripts' = [scripts EXCEPT ![c] = list]
       /\ IF list = << >>
          THEN ReturnResults(c) /\ UNCHANGED started
          ELSE /\ started' = [started EXCEPT ![c] = 1]
               /\ xpc' = [xpc EXCEPT ![c] = "running"]
               /\ UNCHANGED lastExecuted
  /\ UNCHANGED << results, totalExecuted, errors >>
  /\ UNCHANGED << svars, container, lvars, ivars >>
  /\ UNCHANGED pvars

\* script-executor.js 162-178: the awaited executeScript settles; the entry
\* is pushed, one counter incremented, and the loop goes on to the next
\* script or the call returns
ScriptSettles(c) ==
  /\ xpc[c] = "running"
  /\ \E how \in Settlements :
       /\ results' = [results EXCEPT ![c] = Append(@, Entry(scripts[c][started[c]], how))]
       /\ IF Resolved(how)
          THEN totalExecuted' = totalExecuted + 1 /\ UNCHANGED errors
          ELSE errors' = errors + 1 /\ UNCHANGED totalExecuted
       /\ IF Continues(how) /\ started[c] < Len(scripts[c])
          THEN /\ started' = [started EXCEPT ![c] = @ + 1]
               /\ UNCHANGED << xpc, lastExecuted >>
          ELSE ReturnResults(c) /\ UNCHANGED started
  /\ UNCHANGED scripts
  /\ UNCHANGED << svars, container, lvars, ivars >>
  /\ UNCHANGED pvars

ScriptsNext ==
  \E c \in Callers :
    \/ ExecCall(c)
    \/ ScriptSettles(c)

ScriptsSpec == Init /\ [][ScriptsNext]_vars

(***************************************************************************)
(* C27. executeScripts runs its scripts strictly one after another:        *)
(* executeScript is called for script i+1 only when script i has settled   *)
(* and its entry is in results; a script that throws does not stop the     *)
(* later ones; and the results returned hold one entry per script, in the  *)
(* order of the input.                                                     *)
(***************************************************************************)
C27_OneAfterAnother ==
  /\ [](\A c \in Callers :
          /\ xpc[c] = "running" => started[c] = Len(results[c]) + 1
          /\ xpc[c] # "running" => started[c] = Len(results[c])
          /\ Len(results[c]) <= Len(scripts[c])
          /\ \A k \in 1..Len(results[c]) : results[c][k].script = scripts[c][k]
          /\ xpc[c] = "returned" => Len(results[c]) = Len(scripts[c]))
  /\ [][ \A c \in Callers :
           started'[c] # started[c]
             => /\ started'[c] = started[c] + 1
                /\ Len(results'[c]) = started[c]
       ]_vars

\* the first script threw, the second ran all the same, and the call
\* returned both entries in input order
C27_SecondRanAfterFailure ==
  /\ xpc["A"] = "returned"
  /\ scripts["A"] = << "s2", "s1" >>
  /\ results["A"] = << Entry("s2", "threw"), Entry("s1", "exit0") >>

\* the entries of a results list that are error entries (threw) or not
RECURSIVE CountIn(_, _)
CountIn(seq, threw) ==
  IF seq = << >> THEN 0
  ELSE (IF Head(seq).error = threw THEN 1 ELSE 0) + CountIn(Tail(seq), threw)

Counted(threw) == CountIn(results["A"], threw) + CountIn(results["B"], threw)

(***************************************************************************)
(* C28. In executeScripts every script increments exactly one counter:     *)
(* totalExecuted when executeScript resolved, whatever the exit code, and  *)
(* errors when it threw; so the two counters together have grown by the    *)
(* number of scripts of every call, and each call that returned has set    *)
(* lastExecuted once.                                                      *)
(***************************************************************************)
C28_OneCounterPerScript ==
  /\ totalExecuted = Counted(FALSE)
  /\ errors = Counted(TRUE)
  /\ totalExecuted + errors = Len(results["A"]) + Len(results["B"])
  /\ lastExecuted = Cardinality({ c \in Callers : xpc[c] = "returned" })
  /\ \A c \in Callers : xpc[c] = "returned" => Len(results[c]) = Len(scripts[c])

\* a call of two scripts returned: one exited with code 1 and counted as
\* executed, the other threw and counted as an error
C28_NonZeroExitCountsExecuted ==
  /\ xpc["A"] = "returned" /\ xpc["B"] = "idle"
  /\ results["A"] = << Entry("s1", "exit1"), Entry("s2", "threw") >>
  /\ totalExecuted = 1
  /\ errors = 1
  /\ lastExecuted = 1

(***************************************************************************)
(* C29. The deadline timer of a spawned session is armed exactly while the *)
(* call is unsettled: armed in every state in which the call has been      *)
(* neither resolved nor rejected, and not armed (cancelled, or run as the  *)
(* settlement itself) once the call has been settled.                      *)
(***************************************************************************)
C29_ArmedWhileUnsettled ==
  pc = "session" => (timer = "armed" <=> outcome = Pending)

(***************************************************************************)
(* The 'data' callback alone, on longer streams: a session that has just   *)
(* been spawned receives up to MaxStream units of handshake responses,     *)
(* tool results, tool errors and newlines, in fragments of one or two      *)
(* units; its timer does not fire and its process does not exit.           *)
(***************************************************************************)
MaxStream == 7

StreamUnits == {"m1r", "m2r", "m2e", NL}

StreamChunks == UNION { [1..n -> StreamUnits] : n \in 1..2 }

\* mcp.js 20-34, 113-114: the session right after the promise executor
StreamInit ==
  /\ LifecycleInit
  /\ InvokeInit
  /\ ScriptsInit
  /\ SpeakInit
  /\ pc = "session"
  /\ container = "running"
  /\ proc = "running"
  /\ stdin = Writes
  /\ stdout = << >>
  /\ stderr = 0
  /\ exitCode = "none"
  /\ resolved = FALSE
  /\ timer = "armed"
  /\ pendingKill = 0
  /\ kills = 0
  /\ settleCalls = 0
  /\ outcome = Pending

\* mcp.js 36-65: a 'data' event of stdout
StreamData ==
  /\ pc = "session"
  /\ proc \in {"running", "dying"}
  /\ \E chunk \in StreamChunks :
       /\ Len(stdout) + Len(chunk) <= MaxStream
       /\ stdout' = stdout \o chunk
       /\ Becomes(DataCallback(Session, stdout \o chunk))
  /\ UNCHANGED << pc, container, stdin, stderr, exitCode >>
  /\ UNCHANGED << lvars, ivars, xvars >>
  /\ UNCHANGED pvars

StreamNext == StreamData

StreamSpec == StreamInit /\ [][StreamNext]_vars

\* the newline-terminated lines of an output that are id=2 messages
CompleteId2(out) ==
  { i \in 1..Len(CompleteLines(out)) : IsId2Line(CompleteLines(out)[i]) }

\* the earliest of them
EarliestId2(out) ==
  CompleteLines(out)[CHOOSE i \in CompleteId2(out) : \A j \in CompleteId2(out) : i <= j]

(***************************************************************************)
(* C30. First id=2 wins: when the output holds more than one id=2 message, *)
(* the call is settled as the earliest of them in stream order settles it, *)
(* and the later ones are ignored, whatever the fragments were and         *)
(* although every fragment makes the callback scan the output from its     *)
(* start.                                                                  *)
(***************************************************************************)
C30_FirstId2Wins ==
  Cardinality(CompleteId2(stdout)) > 1
    => outcome = HandlerOutcome(EarliestId2(stdout) \o << NL >>)

(***************************************************************************)
(* C31. checkContainer never throws: when docker ps itself fails it        *)
(* reports {exists: false, running: false}, whatever the container is;     *)
(* ensureContainer then issues docker run exactly as for an absent worker, *)
(* and returns false when that command fails.                              *)
(***************************************************************************)
C31_FailedQueryReadsAbsent ==
  /\ [](checkContainer(FALSE) = [exists |-> FALSE, running |-> FALSE])
  /\ [][ \A c \in Callers :
           /\ (lpc[c] = "query" /\ lpc'[c] # "query")
                => /\ lpc'[c] = "decide"
                   /\ status'[c] \in { [exists |-> FALSE, running |-> FALSE],
                                       [exists |-> container # "absent",
                                        running |-> container = "running"] }
           /\ (lpc[c] = "decide" /\ lpc'[c] # "decide" /\ ~status[c].exists)
                => /\ lpc'[c] = "creating"
                   /\ issued'[c] = Append(issued[c],
                                          [op |-> "run", seen |-> container,
                                           call |-> calls[c] + 1])
           /\ (lpc[c] = "creating" /\ lpc'[c] # "creating" /\ container' # "running")
                => ReturnsNow(c) /\ lresult'[c] = "false"
       ]_vars

\* docker ps failed on a running worker: the only caller issued docker run
\* for the container that exists, and got false
C31_CreateAfterFailedQuery ==
  /\ calls["A"] = 1 /\ calls["B"] = 0 /\ lpc["B"] = "idle"
  /\ status["A"] = [exists |-> FALSE, running |-> FALSE]
  /\ issued["A"] = << [op |-> "run", seen |-> "running", call |-> 1] >>
  /\ lresult["A"] = "false"

(***************************************************************************)
(* POST /speak: concurrent requests, each through the route handler and    *)
(* the speak method, all on the one worker and the one statistics object.  *)
(* callEdgeTts stands here by its settlement only: success or a failure.   *)
(***************************************************************************)
\* a speak that goes on to the copy whatever callEdgeTts delivered
ThenCopyAlways(ok) == "copy"

\* methods.js 40-43: await callEdgeTts(...) returns and speak goes on to the
\* copy, or throws into the catch
ThenCopy(ok) == IF ok THEN "copy" ELSE "catch"

\* methods.js 68-72 and routes.js 55-58: the catch block of speak counts the
\* error and rethrows; the catch block of the route counts it and answers 500
SpeakFails(r) ==
  /\ speakErrors' = speakErrors + 1 + 1
  /\ response' = [response EXCEPT ![r] = 500]
  /\ spc' = [spc EXCEPT ![r] = "answered"]

\* routes.js 43-54, methods.js 26-40: the request arrives; it is counted,
\* answered 400 without a text, and otherwise speak calls callEdgeTts
SpeakRequest(r) ==
  /\ spc[r] = "idle"
  /\ totalRequests' = totalRequests + 1
  /\ \E hasText \in BOOLEAN :
       IF hasText
       THEN /\ spc' = [spc EXCEPT ![r] = "invoke"]
            /\ sops' = [sops EXCEPT ![r] = << "invoke" >>]
            /\ tts' = [tts EXCEPT ![r] = "pending"]
            /\ UNCHANGED response
       ELSE /\ spc' = [spc EXCEPT ![r] = "answered"]
            /\ response' = [response EXCEPT ![r] = 400]
            /\ UNCHANGED << sops, tts >>
  /\ UNCHANGED << written, wfile, copied, totalSpoken, speakErrors >>
  /\ UNCHANGED << svars, container, lvars, ivars, xvars >>

\* methods.js 33, 40: the worker's tool writes the audio of the request to
\* output_file, which is '/tmp/output.mp3' for every request
WorkerWrites(r) ==
  /\ spc[r] = "invoke"
  /\ ~written[r]
  /\ written' = [written EXCEPT ![r] = TRUE]
  /\ wfile' = r
  /\ UNCHANGED << spc, sops, tts, copied, response,
                  totalRequests, totalSpoken, speakErrors >>
  /\ UNCHANGED << svars, container, lvars, ivars, xvars >>

\* methods.js 40-43, 68-72: callEdgeTts settles (with success only when the
\* tool has written its file); speak calls copyFromContainer or throws
CallSettles(r) ==
  /\ spc[r] = "invoke"
  /\ \E ok \in (IF written[r] THEN BOOLEAN ELSE {FALSE}) :
       /\ tts' = [tts EXCEPT ![r] = IF ok THEN "success" ELSE "failure"]
       /\ IF ThenCopy(ok) = "copy"
          THEN /\ spc' = [spc EXCEPT ![r] = "copy"]
               /\ sops' = [sops EXCEPT ![r] = Append(@, "copy")]
               /\ UNCHANGED << response, speakErrors >>
          ELSE SpeakFails(r) /\ UNCHANGED sops
  /\ UNCHANGED << written, wfile, copied, totalRequests, totalSpoken >>
  /\ UNCHANGED << svars, container, lvars, ivars, xvars >>

\* file-ops.js 17-19, methods.js 43-48: docker cp returns; it copied what
\* /tmp/output.mp3 held; speak calls playAudio or throws
CopyReturns(r) ==
  /\ spc[r] = "copy"
  /\ \E ok \in (IF wfile = "none" THEN {FALSE} ELSE BOOLEAN) :
       IF ok
       THEN /\ copied' = [copied EXCEPT ![r] = wfile]
            /\ spc' = [spc EXCEPT ![r] = "play"]
            /\ sops' = [sops EXCEPT ![r] = Append(@, "play")]
            /\ UNCHANGED << response, speakErrors >>
       ELSE SpeakFails(r) /\ UNCHANGED << copied, sops >>
  /\ UNCHANGED << tts, written, wfile, totalRequests, totalSpoken >>
  /\ UNCHANGED << svars, container, lvars, ivars, xvars >>

\* methods.js 48-65, routes.js 53-54: playAudio returns; speak counts the
\* text as spoken and the route answers 200, or speak throws
PlayReturns(r) ==
  /\ spc[r] = "play"
  /\ \E ok \in BOOLEAN :
       IF ok
       THEN /\ totalSpoken' = totalSpoken + 1
            /\ response' = [response EXCEPT ![r] = 200]
            /\ spc' = [spc EXCEPT ![r] = "answered"]
            /\ UNCHANGED speakErrors
       ELSE SpeakFails(r) /\ UNCHANGED totalSpoken
  /\ UNCHANGED << sops, tts, written, wfile, copied, totalRequests >>
  /\ UNCHANGED << svars, container, lvars, ivars, xvars >>

SpeakNext ==
  \E r \in Callers :
    \/ SpeakRequest(r)
    \/ WorkerWrites(r)
    \/ CallSettles(r)
    \/ CopyReturns(r)
    \/ PlayReturns(r)

SpeakSpec == Init /\ [][SpeakNext]_vars

\* s is a prefix of t
IsPrefix(s, t) == Len(s) <= Len(t) /\ s = SubSeq(t, 1, Len(s))

(***************************************************************************)
(* C32. In speak the copy from the worker and the playback happen only     *)
(* after callEdgeTts has settled with success, in the order invoke, copy,  *)
(* play; when callEdgeTts fails, neither is performed and the failure goes *)
(* to the caller.                                                          *)
(***************************************************************************)
C32_CopyAndPlayAfterSuccess ==
  \A r \in Callers :
    /\ IsPrefix(sops[r], << "invoke", "copy", "play" >>)
    /\ Len(sops[r]) > 1 => tts[r] = "success"
    /\ tts[r] = "failure"
         => sops[r] = << "invoke" >> /\ copied[r] = "none" /\ response[r] = 500
    /\ response[r] = 200 => sops[r] = << "invoke", "copy", "play" >>

\* one request went through invoke, copy and play and was answered 200; the
\* other one's callEdgeTts failed and it was answered 500 without a copy
C32_OnePlayedOneFailed ==
  /\ response["A"] = 200
  /\ sops["A"] = << "invoke", "copy", "play" >>
  /\ tts["B"] = "failure"
  /\ sops["B"] = << "invoke" >>
  /\ response["B"] = 500

(***************************************************************************)
(* C33. For concurrent speak calls on the same worker, the audio file a    *)
(* call copies to the host is the one its own tool invocation produced:    *)
(* under no interleaving does one call copy the audio written for another. *)
(***************************************************************************)
C33_CopiesOwnAudio ==
  \A r \in Callers : copied[r] \in {"none", r}

(***************************************************************************)
(* C34. Every failed POST /speak request is counted once: the error        *)
(* counter of the statistics equals the number of requests whose speak     *)
(* failed, and totalRequests the number of requests received.              *)
(***************************************************************************)
C34_FailedRequestCountedOnce ==
  /\ totalRequests = Cardinality({ r \in Callers : spc[r] # "idle" })
  /\ speakErrors = Cardinality({ r \in Callers : response[r] = 500 })

====
